---- MODULE Spec2Model ----
(***************************************************************************)
(* tokie-go: scan a directory tree, classify files by extension, count     *)
(* lines and bytes per file and aggregate per-language totals.             *)
(*                                                                         *)
(* The repository holds three versions of the program:                     *)
(*   "v1"  src/unnamed/part_001  one goroutine per file, table-wide lock   *)
(*                               plus per-entry lock, os.Exit on walk      *)
(*                               error                                     *)
(*   "v2"  src/main.go           walker goroutine, bounded channel, pool   *)
(*                               of workers                                *)
(*   "v3"  src/unnamed/part_000  v2 plus --skip-node-modules and --sort    *)
(* The model runs any of the three; `version` is fixed by Init.            *)
(*                                                                         *)
(* Strings that the program inspects (file names, extensions, glob         *)
(* patterns) are sequences of one-character strings.                       *)
(***************************************************************************)
EXTENDS Integers, Sequences, FiniteSets, TLC

\* ----------------------------------------------------------------------
\* Bounds of the model
\* ----------------------------------------------------------------------

\* largest worker count tried (runtime.NumCPU() in the code)
MaxWorkers == 2

\* largest channel capacity tried (the code uses 1000)
MaxCap == 2

\* ----------------------------------------------------------------------
\* Strings
\* ----------------------------------------------------------------------

\* strings.ToLower on the characters that occur in the model's names
LowerChar(c) ==
    CASE c = "G" -> "g"
      [] c = "O" -> "o"
      [] c = "J" -> "j"
      [] c = "S" -> "s"
      [] c = "P" -> "p"
      [] c = "Y" -> "y"
      [] c = "C" -> "c"
      [] c = "D" -> "d"
      [] c = "E" -> "e"
      [] c = "L" -> "l"
      [] OTHER -> c

ToLower(s) == [k \in 1..Len(s) |-> LowerChar(s[k])]

\* strings.TrimSpace: leading and trailing blanks removed
RECURSIVE TrimLeft(_)
TrimLeft(s) ==
    IF s # <<>> /\ Head(s) = " " THEN TrimLeft(Tail(s)) ELSE s

RECURSIVE TrimRight(_)
TrimRight(s) ==
    IF s # <<>> /\ s[Len(s)] = " " THEN TrimRight(SubSeq(s, 1, Len(s) - 1)) ELSE s

TrimSpace(s) == TrimRight(TrimLeft(s))

\* filepath.Ext: the suffix starting at the last dot, "" when there is none
Ext(name) ==
    LET dots == {k \in 1..Len(name) : name[k] = "."}
    IN  IF dots = {} THEN <<>>
        ELSE LET d == CHOOSE k \in dots : \A j \in dots : j <= k
             IN  SubSeq(name, d, Len(name))

\* the extension table of the program
languageExtMap ==
    (<<".", "g", "o">> :> "Go") @@
    (<<".", "p", "y">> :> "Python") @@
    (<<".", "j", "s">> :> "JavaScript") @@
    (<<".", "t", "s">> :> "TypeScript") @@
    (<<".", "j", "a", "v", "a">> :> "Java") @@
    (<<".", "c", "p", "p">> :> "C++") @@
    (<<".", "c">> :> "C") @@
    (<<".", "r", "b">> :> "Ruby") @@
    (<<".", "p", "h", "p">> :> "PHP") @@
    (<<".", "r", "s">> :> "Rust") @@
    (<<".", "s", "w", "i", "f", "t">> :> "Swift") @@
    (<<".", "k", "t">> :> "Kotlin")

Languages == {languageExtMap[e] : e \in DOMAIN languageExtMap}

\* ----------------------------------------------------------------------
\* filepath.Match on a base name: "*", "?", "[...]" and literal characters.
\* A "[" that is never closed makes the pattern malformed (ErrBadPattern).
\* ----------------------------------------------------------------------

\* index of the "]" closing the class opened at p[1], 0 when there is none
ClassEnd(p) ==
    LET ends == {k \in 3..Len(p) : p[k] = "]"}
    IN  IF ends = {} THEN 0 ELSE CHOOSE k \in ends : \A j \in ends : k <= j

RECURSIVE BadPattern(_)
BadPattern(p) ==
    IF p = <<>> THEN FALSE
    ELSE IF Head(p) = "["
         THEN IF ClassEnd(p) = 0 THEN TRUE
              ELSE BadPattern(SubSeq(p, ClassEnd(p) + 1, Len(p)))
         ELSE BadPattern(Tail(p))

RECURSIVE GlobMatch(_, _)
GlobMatch(p, n) ==
    IF p = <<>> THEN n = <<>>
    ELSE IF Head(p) = "*"
         THEN GlobMatch(Tail(p), n) \/ (n # <<>> /\ GlobMatch(p, Tail(n)))
    ELSE IF Head(p) = "?"
         THEN n # <<>> /\ GlobMatch(Tail(p), Tail(n))
    ELSE IF Head(p) = "["
         THEN /\ n # <<>>
              /\ \E k \in 2..(ClassEnd(p) - 1) : p[k] = Head(n)
              /\ GlobMatch(SubSeq(p, ClassEnd(p) + 1, Len(p)), Tail(n))
    ELSE n # <<>> /\ Head(n) = Head(p) /\ GlobMatch(Tail(p), Tail(n))

\* the two results of filepath.Match
Match(p, n) ==
    IF BadPattern(p) THEN [matched |-> FALSE, err |-> TRUE]
    ELSE [matched |-> GlobMatch(p, n), err |-> FALSE]

\* ----------------------------------------------------------------------
\* Input: a directory tree in the order filepath.Walk visits it (pre-order,
\* the root first), and the command line options.
\*   name     base name of the entry
\*   isDir    info.IsDir()
\*   depth    nesting depth, the root is 0
\*   err      filepath.Walk hands the callback an error for this entry
\*            (lstat failed, or the directory cannot be read)
\*   openOk   os.Open succeeds          statOk  file.Stat succeeds
\*   content  the bytes of the file: "x" stands for any byte that is neither
\*            a line feed nor a carriage return
\*   readable the number of bytes that can be read before a read fails;
\*            Len(content) when every read succeeds
\* ----------------------------------------------------------------------

File(name, depth, openOk, statOk, content, readable) ==
    [name |-> name, isDir |-> FALSE, depth |-> depth, err |-> FALSE,
     openOk |-> openOk, statOk |-> statOk, content |-> content,
     readable |-> readable]

Dir(name, depth, err) ==
    [name |-> name, isDir |-> TRUE, depth |-> depth, err |-> err,
     openOk |-> FALSE, statOk |-> FALSE, content |-> << >>, readable |-> 0]

\* an entry whose lstat failed: the callback sees only the error
Broken(name, depth) ==
    [name |-> name, isDir |-> FALSE, depth |-> depth, err |-> TRUE,
     openOk |-> FALSE, statOk |-> FALSE, content |-> << >>, readable |-> 0]

\* bufio.MaxScanTokenSize, the size the scanner's buffer grows to: 64 * 1024
\* in the library, scaled down here
MaxScanTokenSize == 3

\* the index of the first line feed of data at or after start, 0 if none
FirstNewline(data, start) ==
    LET at == {k \in start..Len(data) : data[k] = "\n"}
    IN  IF at = {} THEN 0 ELSE CHOOSE k \in at : \A j \in at : k <= j

\* the loop `for scanner.Scan() { lineCount++ }` over the bytes of data, from
\* index start on, with count lines seen so far. bufio.ScanLines yields one
\* token per line feed (a carriage return before it is dropped from the
\* token) and one more for a last line without a line feed. Scan() gives up
\* with ErrTooLong when the buffer holds MaxScanTokenSize bytes and no line
\* feed is among them; the tokens before that have been counted.
RECURSIVE ScanLoop(_, _, _)
ScanLoop(data, start, count) ==
    IF start > Len(data) THEN [count |-> count, tooLong |-> FALSE]
    ELSE LET nl == FirstNewline(data, start)
             len == IF nl = 0 THEN Len(data) - start + 1 ELSE nl - start
         IN  IF len >= MaxScanTokenSize
             THEN [count |-> count, tooLong |-> TRUE]
             ELSE IF nl = 0
                  THEN [count |-> count + 1, tooLong |-> FALSE]
                  ELSE ScanLoop(data, nl + 1, count + 1)

\* the scanner on file e: lineCount after the loop, and whether
\* scanner.Err() is non-nil. When a read fails the scanner still yields the
\* bytes it had buffered, the last partial line included, and keeps the
\* read error.
Scanned(e) ==
    LET r == ScanLoop(SubSeq(e.content, 1, e.readable), 1, 0)
    IN  [count |-> r.count,
         err |-> r.tooLong \/ e.readable < Len(e.content)]

\* info.Size()
Size(e) == Len(e.content)

NodeModules == <<"n", "o", "d", "e", "_", "m", "o", "d", "u", "l", "e", "s">>

RootName == <<"D", "e", "s", "k", "t", "o", "p">>

\* two Go files, a Python file and a text file
TreePlain ==
    << Dir(RootName, 0, FALSE),
       File(<<"a", ".", "g", "o">>, 1, TRUE, TRUE, <<"x", "\n", "x", "\n", "x">>, 5),
       File(<<"b", ".", "G", "O">>, 1, TRUE, TRUE, <<"x", "\n", "x", "\n">>, 4),
       File(<<"c", ".", "p", "y">>, 1, TRUE, TRUE, <<"x", "\n">>, 2),
       File(<<"d", ".", "t", "x", "t">>, 1, TRUE, TRUE, <<"x", "\n">>, 2) >>

\* files that cannot be opened, stat'ed or read to the end, and an empty one
TreeFaulty ==
    << Dir(RootName, 0, FALSE),
       File(<<"a", ".", "g", "o">>, 1, FALSE, TRUE, << >>, 0),
       File(<<"b", ".", "g", "o">>, 1, TRUE, TRUE,
            <<"x", "\n", "x", "\n", "x", "\n">>, 2),
       File(<<"c", ".", "g", "o">>, 1, TRUE, FALSE, <<"x", "\n", "x">>, 3),
       File(<<"e", ".", "j", "s">>, 1, TRUE, TRUE, << >>, 0) >>

\* a node_modules directory holding a file and an entry that cannot be lstat'ed
TreeModules ==
    << Dir(RootName, 0, FALSE),
       File(<<"a", ".", "j", "s">>, 1, TRUE, TRUE, <<"x", "\n", "x">>, 3),
       Dir(NodeModules, 1, FALSE),
       File(<<"y", ".", "j", "s">>, 2, TRUE, TRUE,
            <<"x", "\n", "\n", "\n", "\n", "x", "x">>, 7),
       Broken(<<"z">>, 2),
       File(<<"z", ".", "J", "S">>, 1, TRUE, TRUE, <<"x">>, 1) >>

\* an unreadable directory between two files
TreeBroken ==
    << Dir(RootName, 0, FALSE),
       File(<<"a", ".", "g", "o">>, 1, TRUE, TRUE, <<"x", "\n", "x", "\n", "x">>, 5),
       Dir(<<"b", "a", "d">>, 1, TRUE),
       File(<<"c", ".", "g", "o">>, 1, TRUE, TRUE, <<"x">>, 1) >>

\* a file with a line of MaxScanTokenSize bytes between two short lines,
\* one with such a line at its end, after a line ending in CR LF, and a file
\* of one short line
TreeLong ==
    << Dir(RootName, 0, FALSE),
       File(<<"l", ".", "g", "o">>, 1, TRUE, TRUE,
            <<"x", "\n", "x", "x", "x", "\n", "x">>, 7),
       File(<<"m", ".", "p", "y">>, 1, TRUE, TRUE,
            <<"x", "\r", "\n", "x", "x", "x">>, 6),
       File(<<"n", ".", "j", "s">>, 1, TRUE, TRUE, <<"x">>, 1) >>

\* the --exclude option after strings.Split(",")
NoPatterns == << >>

PatternsPy == << <<" ", "*", ".", "p", "y">> >>

PatternsMalformed == << <<"[", "a">>, <<"b", "*">> >>

PatternsPyMalformed == << <<"*", ".", "p", "y">>, <<"[", "a">> >>

\* the inputs the model is run on
Scenarios ==
    { [tree |-> TreePlain,   patterns |-> NoPatterns,        skip |-> FALSE],
      [tree |-> TreePlain,   patterns |-> PatternsPy,        skip |-> FALSE],
      [tree |-> TreePlain,   patterns |-> PatternsMalformed, skip |-> FALSE],
      [tree |-> TreePlain,   patterns |-> PatternsPyMalformed, skip |-> FALSE],
      [tree |-> TreeFaulty,  patterns |-> NoPatterns,        skip |-> FALSE],
      [tree |-> TreeLong,    patterns |-> NoPatterns,        skip |-> FALSE],
      [tree |-> TreeModules, patterns |-> NoPatterns,        skip |-> TRUE],
      [tree |-> TreeModules, patterns |-> NoPatterns,        skip |-> FALSE],
      [tree |-> TreeBroken,  patterns |-> NoPatterns,        skip |-> FALSE] }

\* the --sort option as typed; << >> when the flag is absent
SortArgs ==
    { << >>,
      <<"f", "i", "l", "e", "s", " ", "a", "s", "c">>,
      <<"L", "i", "n", "e", "s", " ", " ", "D", "E", "S", "C">>,
      <<"s", "i", "z", "e", " ", "d", "e", "s", "c">>,
      <<"n", "a", "m", "e", " ", "d", "e", "s", "c">>,
      <<"b", "o", "g", "u", "s", " ", "d", "e", "s", "c">>,
      <<"f", "i", "l", "e", "s", " ", "u", "p">>,
      <<"l", "i", "n", "e", "s">> }

Versions == {"v1", "v2", "v3"}

\* the versions with a walker goroutine, a channel and a pool of workers
PoolVersions == {"v2", "v3"}

\* ----------------------------------------------------------------------
\* The report: the --sort option and sortLanguageData
\* ----------------------------------------------------------------------

\* strings.Fields: the words of s between blanks; word is the word being
\* read at index k, acc the words before it
RECURSIVE FieldsLoop(_, _, _, _)
FieldsLoop(s, k, word, acc) ==
    LET done == IF word = << >> THEN acc ELSE Append(acc, word)
    IN  IF k > Len(s) THEN done
        ELSE IF s[k] = " " THEN FieldsLoop(s, k + 1, << >>, done)
             ELSE FieldsLoop(s, k + 1, Append(word, s[k]), acc)

Fields(s) == FieldsLoop(s, 1, << >>, << >>)

\* the zero SortOption
NoSortOption == [Field |-> << >>, Direction |-> << >>]

\* main's parsing of --sort: two words, lower-cased, or the zero value
ParseSort(arg) ==
    IF arg = << >> THEN NoSortOption
    ELSE LET parts == Fields(arg)
         IN  IF Len(parts) = 2
             THEN [Field |-> ToLower(parts[1]), Direction |-> ToLower(parts[2])]
             ELSE NoSortOption

\* the language labels in the order of Go's < on strings (byte by byte)
NameOrder ==
    << "C", "C++", "Go", "Java", "JavaScript", "Kotlin", "PHP", "Python",
       "Ruby", "Rust", "Swift", "TypeScript" >>

NameRank(l) == CHOOSE k \in 1..Len(NameOrder) : NameOrder[k] = l

\* `if opt.Direction == "desc" { comparison = !comparison }`
ReverseForgotten(comparison, direction) == comparison

Reverse(comparison, direction) ==
    IF direction = <<"d", "e", "s", "c">> THEN ~comparison ELSE comparison

\* the less function handed to sort.Slice, on rows a and b
less(a, b, opt) ==
    LET comparison ==
            CASE opt.Field = <<"f", "i", "l", "e", "s">> ->
                     a.Stats.FileCount < b.Stats.FileCount
              [] opt.Field = <<"l", "i", "n", "e", "s">> ->
                     a.Stats.LineCount < b.Stats.LineCount
              [] opt.Field = <<"s", "i", "z", "e">> ->
                     a.Stats.ByteCount < b.Stats.ByteCount
              [] OTHER -> NameRank(a.Name) < NameRank(b.Name)
    IN  Reverse(comparison, opt.Direction)

\* data with the elements at i and j exchanged
Swap(data, i, j) == [data EXCEPT ![i] = data[j], ![j] = data[i]]

\* sort.Slice on at most 12 elements is an insertion sort (the table never
\* holds more rows than languageExtMap has labels): the element at j moves
\* left while it is less than its left neighbour
RECURSIVE InsertLeft(_, _, _)
InsertLeft(data, j, opt) ==
    IF j > 1 /\ less(data[j], data[j - 1], opt)
    THEN InsertLeft(Swap(data, j, j - 1), j - 1, opt)
    ELSE data

RECURSIVE InsertionSort(_, _, _)
InsertionSort(data, i, opt) ==
    IF i > Len(data) THEN data
    ELSE InsertionSort(InsertLeft(data, i, opt), i + 1, opt)

sortLanguageData(data, opt) == InsertionSort(data, 2, opt)

\* the orders in which `for lang, stat := range stats` can yield the table
RangeOrders(table) ==
    {o \in [1..Cardinality(DOMAIN table) -> DOMAIN table] :
        \A i, j \in DOMAIN o : i # j => o[i] # o[j]}

\* the slice languageData built from the table in range order o
LanguageData(table, o) ==
    [k \in DOMAIN o |->
        [Name |-> o[k],
         Stats |-> [FileCount |-> table[o[k]].FileCount,
                    LineCount |-> table[o[k]].LineCount,
                    ByteCount |-> table[o[k]].ByteCount]]]

\* ----------------------------------------------------------------------
\* The callback handed to filepath.Walk
\* ----------------------------------------------------------------------

\* the loop over the exclusion patterns: TRUE when the callback returns nil
\* from inside the loop (the file is dropped)
RECURSIVE ExcludeLoop(_, _, _, _)
ExcludeLoop(ver, pats, k, base) ==
    IF k > Len(pats) THEN FALSE
    ELSE LET m == Match(TrimSpace(pats[k]), base)
         IN  IF ver = "v1"
             THEN IF m.err THEN ExcludeLoop(ver, pats, k + 1, base)
                  ELSE IF m.matched THEN TRUE
                  ELSE ExcludeLoop(ver, pats, k + 1, base)
             ELSE IF m.err \/ m.matched THEN TRUE
                  ELSE ExcludeLoop(ver, pats, k + 1, base)

Excluded(ver, pats, base) == ExcludeLoop(ver, pats, 1, base)

\* a skip predicate that tests files instead of directories
SkipsDirFilesOnly(skip, e) == skip /\ ~e.isDir /\ e.name = NodeModules

\* the skip predicate of --skip-node-modules
SkipsDir(skip, e) == skip /\ e.isDir /\ e.name = NodeModules

\* a lookup that labels every unknown extension "Other"
ClassifyWithDefault(name) ==
    LET ext == ToLower(Ext(name))
    IN  IF ext \in DOMAIN languageExtMap THEN languageExtMap[ext] ELSE "Other"

\* the language of a file name, "" when the extension is not in the table
Classify(name) ==
    LET ext == ToLower(Ext(name))
    IN  IF ext \in DOMAIN languageExtMap THEN languageExtMap[ext] ELSE ""

\* what the callback does for entry i of tree t: the value it returns and
\* whether it hands the file on (a channel send, or a goroutine in v1)
walkFn(t, i, ver, pats, skip) ==
    LET e == t[i]
    IN  IF e.err THEN [ret |-> "err", emit |-> FALSE]
        ELSE IF ver = "v3" /\ SkipsDir(skip, e) THEN [ret |-> "SkipDir", emit |-> FALSE]
        ELSE IF e.isDir THEN [ret |-> "nil", emit |-> FALSE]
        ELSE IF Excluded(ver, pats, e.name) THEN [ret |-> "nil", emit |-> FALSE]
        ELSE IF Classify(e.name) # "" THEN [ret |-> "nil", emit |-> TRUE]
        ELSE [ret |-> "nil", emit |-> FALSE]

\* filepath.Walk after the callback returned r for entry i: the next entry
\* to visit; Len(t) + 1 when the walk is over
AfterSubtree(t, i) ==
    LET later == {j \in (i + 1)..Len(t) : t[j].depth <= t[i].depth}
    IN  IF later = {} THEN Len(t) + 1
        ELSE CHOOSE j \in later : \A k \in later : j <= k

NextPos(t, i, r) ==
    CASE r.ret = "err" -> Len(t) + 1
      [] r.ret = "SkipDir" -> AfterSubtree(t, i)
      [] OTHER -> i + 1

\* ----------------------------------------------------------------------
\* State
\* ----------------------------------------------------------------------

VARIABLES
    version,          \* which of the three programs runs
    tree,             \* the directory tree, in walk order
    excludePatterns,  \* the --exclude patterns
    skipNodeModules,  \* the --skip-node-modules flag (v3)
    numWorkers,       \* runtime.NumCPU()
    chanCap,          \* capacity of filesChan
    stats,            \* map[string]*LanguageStats
    statsMutex,       \* 0 when free, else the goroutine holding it
    filesChan,        \* the buffered channel: tasks are indices into tree
    closed,           \* close(filesChan) has happened
    closes,           \* how often close(filesChan) was called
    wg,               \* the counter of the sync.WaitGroup
    mainpc,           \* position of main
    walkpc,           \* position of the walk
    pos,              \* the entry filepath.Walk visits next
    walkErr,          \* filepath.Walk returned an error
    wpc,              \* position of each worker / counting goroutine
    wtask,            \* the task a goroutine holds, 0 when none
    wline,            \* its local lineCount
    wsize,            \* its local info.Size()
    wexists,          \* its local result of the lookup stats[language]
    openHandles,      \* the files that are open
    opens,            \* how often each path was opened
    recvs,            \* how often each task was handed to a goroutine
    recorded,         \* the tasks whose counts were added to stats
    report,           \* the table main printed: language -> totals
    rows,             \* the rows of the printed table, top to bottom
    sortOpt           \* the --sort option, as parsed

vars ==
    << version, tree, excludePatterns, skipNodeModules, numWorkers, chanCap,
       stats, statsMutex, filesChan, closed, wg, mainpc, walkpc, pos, walkErr,
       wpc, wtask, wline, wsize, wexists, openHandles, opens, recvs, recorded,
       closes, report, rows, sortOpt >>

inputs == << version, tree, excludePatterns, skipNodeModules, numWorkers, chanCap >>

locals == << wtask, wline, wsize, wexists >>

output == << report, rows, sortOpt >>

\* the longest tree of the scenarios
MaxTreeLen ==
    LET lens == {Len(sc.tree) : sc \in Scenarios}
    IN  CHOOSE n \in lens : \A m \in lens : m <= n

\* goroutine ids: pool workers are 1..numWorkers; in v1 the goroutine
\* started for entry i of the tree has id i
Procs == 1..(IF MaxWorkers > MaxTreeLen THEN MaxWorkers ELSE MaxTreeLen)

NoStats == [l \in {} |-> 0]

\* &LanguageStats{}
ZeroStats == [FileCount |-> 0, LineCount |-> 0, ByteCount |-> 0, mutex |-> 0]

Language(i) == Classify(tree[i].name)

Init ==
    /\ version \in Versions
    /\ \E sc \in Scenarios :
        /\ tree = sc.tree
        /\ excludePatterns = sc.patterns
        /\ skipNodeModules = (version = "v3" /\ sc.skip)
    /\ IF version \in PoolVersions
       THEN numWorkers \in 1..MaxWorkers /\ chanCap \in 1..MaxCap
       ELSE numWorkers = 0 /\ chanCap = 0
    /\ stats = NoStats
    /\ statsMutex = 0
    /\ filesChan = << >>
    /\ closed = FALSE
    /\ closes = 0
    /\ wg = 0
    /\ mainpc = "start"
    /\ walkpc = "idle"
    /\ pos = 1
    /\ walkErr = FALSE
    /\ wpc = [w \in Procs |-> "none"]
    /\ wtask = [w \in Procs |-> 0]
    /\ wline = [w \in Procs |-> 0]
    /\ wsize = [w \in Procs |-> 0]
    /\ wexists = [w \in Procs |-> FALSE]
    /\ openHandles = {}
    /\ opens = [i \in 1..Len(tree) |-> 0]
    /\ recvs = [i \in 1..Len(tree) |-> 0]
    /\ recorded = {}
    /\ report = NoStats
    /\ rows = << >>
    /\ sortOpt = NoSortOption

\* os.Exit has not been called
Alive == mainpc # "exited"

\* ----------------------------------------------------------------------
\* Synchronisation primitives
\* ----------------------------------------------------------------------

\* a Lock that never waits
MutexFreeNoWait(holder) == TRUE

\* sync.Mutex.Lock returns only when nobody holds the mutex
MutexFree(holder) == holder = 0

\* a file.Close() that was left out
CloseForgotten(handles, task) == handles

\* the open files after the deferred file.Close() on the task's file
AfterClose(handles, task) == handles \ {task}

\* a send that also proceeds into a full channel
ChanHasRoomOffByOne(q, capacity) == Len(q) <= capacity

\* a send on the buffered channel proceeds only when there is room
ChanHasRoom(q, capacity) == Len(q) < capacity

\* a receive that leaves the task in the channel
AfterReceiveKept(q) == q

\* a receive takes the first task out of the channel
AfterReceive(q) == Tail(q)

\* a receive loop that gives up as soon as the channel is empty
RangeEndsWhenEmpty(q, isClosed) == q = << >>

\* `for result := range filesChan` ends when the channel is closed and empty
RangeEnds(q, isClosed) == q = << >> /\ isClosed

\* a goroutine that returns without wg.Done()
WgDoneForgotten(counter) == counter

\* wg.Done()
WgDone(counter) == counter - 1

\* a Wait that returns at once
WaitReturnsAtOnce(counter) == TRUE

\* wg.Wait() returns when the counter is zero
WaitReturns(counter) == counter = 0

\* ----------------------------------------------------------------------
\* main and the walk
\* ----------------------------------------------------------------------

\* v2, v3: main starts the workers (wg.Add(1) each) and the walker goroutine,
\* and goes on to wg.Wait()
StartPool ==
    /\ mainpc = "start"
    /\ version \in PoolVersions
    /\ wg' = wg + numWorkers
    /\ wpc' = [w \in Procs |-> IF w <= numWorkers THEN "recv" ELSE "none"]
    /\ walkpc' = "walk"
    /\ mainpc' = "wait"
    /\ UNCHANGED << inputs, stats, statsMutex, filesChan, closed, closes, pos, walkErr,
                    locals, openHandles, opens, recvs, recorded, output >>

\* v1: main calls filepath.Walk itself
StartWalk ==
    /\ mainpc = "start"
    /\ version = "v1"
    /\ walkpc' = "walk"
    /\ mainpc' = "walk"
    /\ UNCHANGED << inputs, stats, statsMutex, filesChan, closed, closes, wg, pos, walkErr,
                    wpc, locals, openHandles, opens, recvs, recorded, output >>

\* what every visit of an entry does to the walk itself
Advance(r) ==
    /\ pos' = NextPos(tree, pos, r)
    /\ walkErr' = (r.ret = "err")
    /\ walkpc' = IF NextPos(tree, pos, r) > Len(tree) THEN "returned" ELSE "walk"

\* the callback runs for an entry it does not hand on: an error, a
\* directory, an excluded file, an unknown extension
WalkVisit ==
    /\ Alive
    /\ walkpc = "walk"
    /\ LET r == walkFn(tree, pos, version, excludePatterns, skipNodeModules)
       IN  /\ ~r.emit
           /\ Advance(r)
    /\ UNCHANGED << inputs, stats, statsMutex, filesChan, closed, closes, wg, mainpc,
                    wpc, locals, openHandles, opens, recvs, recorded, output >>

\* v2, v3: the callback sends the file on filesChan (blocks while it is full)
WalkSend ==
    /\ Alive
    /\ walkpc = "walk"
    /\ version \in PoolVersions
    /\ LET r == walkFn(tree, pos, version, excludePatterns, skipNodeModules)
       IN  /\ r.emit
           /\ ChanHasRoom(filesChan, chanCap)
           /\ filesChan' = Append(filesChan, pos)
           /\ Advance(r)
    /\ UNCHANGED << inputs, stats, statsMutex, closed, closes, wg, mainpc,
                    wpc, locals, openHandles, opens, recvs, recorded, output >>

\* v1: the callback does wg.Add(1) and starts a goroutine for the file
WalkSpawn ==
    /\ Alive
    /\ walkpc = "walk"
    /\ version = "v1"
    /\ LET r == walkFn(tree, pos, version, excludePatterns, skipNodeModules)
       IN  /\ r.emit
           /\ wg' = wg + 1
           /\ wpc' = [wpc EXCEPT ![pos] = "open"]
           /\ wtask' = [wtask EXCEPT ![pos] = pos]
           /\ recvs' = [recvs EXCEPT ![pos] = @ + 1]
           /\ Advance(r)
    /\ UNCHANGED << inputs, stats, statsMutex, filesChan, closed, closes, mainpc,
                    wline, wsize, wexists, openHandles, opens, recorded, output >>

\* v2, v3: filepath.Walk has returned; the walker prints the error, if any,
\* and closes the channel
WalkerClose ==
    /\ Alive
    /\ walkpc = "returned"
    /\ version \in PoolVersions
    /\ closed' = TRUE
    /\ closes' = closes + 1
    /\ walkpc' = "done"
    /\ UNCHANGED << inputs, stats, statsMutex, filesChan, wg, mainpc, pos, walkErr,
                    wpc, locals, openHandles, opens, recvs, recorded, output >>

\* v1: filepath.Walk has returned; on an error main prints it and calls
\* os.Exit(1), else it goes on to wg.Wait()
MainAfterWalk ==
    /\ Alive
    /\ walkpc = "returned"
    /\ version = "v1"
    /\ walkpc' = "done"
    /\ mainpc' = IF walkErr THEN "exited" ELSE "wait"
    /\ UNCHANGED << inputs, stats, statsMutex, filesChan, closed, closes, wg, pos, walkErr,
                    wpc, locals, openHandles, opens, recvs, recorded, output >>

\* wg.Wait() returns
WgWait ==
    /\ mainpc = "wait"
    /\ WaitReturns(wg)
    /\ mainpc' = "report"
    /\ UNCHANGED << inputs, stats, statsMutex, filesChan, closed, closes, wg, walkpc, pos,
                    walkErr, wpc, locals, openHandles, opens, recvs, recorded, output >>

\* main copies the stats table into languageData in the order the map range
\* yields it, sorts it (v3: sortLanguageData with the --sort option; v2:
\* sort.Strings on the names; v1: not at all) and prints the rows. The sort
\* option is parsed when main starts and read only here.
BuildReport ==
    /\ mainpc = "report"
    /\ report' = [l \in DOMAIN stats |->
                    [FileCount |-> stats[l].FileCount,
                     LineCount |-> stats[l].LineCount,
                     ByteCount |-> stats[l].ByteCount]]
    /\ mainpc' = "done"
    /\ \E o \in RangeOrders(stats),
          arg \in IF version = "v3" THEN SortArgs ELSE {<< >>} :
          /\ sortOpt' = ParseSort(arg)
          /\ rows' = IF version = "v1" THEN LanguageData(stats, o)
                     ELSE sortLanguageData(LanguageData(stats, o), sortOpt')
    /\ UNCHANGED << inputs, stats, statsMutex, filesChan, closed, closes, wg, walkpc, pos,
                    walkErr, wpc, locals, openHandles, opens, recvs, recorded >>

\* ----------------------------------------------------------------------
\* The workers (v2, v3: processFile) and the counting goroutines (v1)
\* ----------------------------------------------------------------------

\* goroutine w drops its locals
Forget(w) ==
    /\ wtask' = [wtask EXCEPT ![w] = 0]
    /\ wline' = [wline EXCEPT ![w] = 0]
    /\ wsize' = [wsize EXCEPT ![w] = 0]
    /\ wexists' = [wexists EXCEPT ![w] = FALSE]

\* goroutine w is through with its task: a pool worker goes back to the
\* channel, a v1 goroutine returns (defer wg.Done())
Return(w) ==
    /\ Forget(w)
    /\ IF version \in PoolVersions
       THEN wpc' = [wpc EXCEPT ![w] = "recv"] /\ wg' = wg
       ELSE wpc' = [wpc EXCEPT ![w] = "exited"] /\ wg' = WgDone(wg)

\* a worker receives a task from the channel
Receive(w) ==
    /\ Alive
    /\ wpc[w] = "recv"
    /\ filesChan # << >>
    /\ wtask' = [wtask EXCEPT ![w] = Head(filesChan)]
    /\ recvs' = [recvs EXCEPT ![Head(filesChan)] = @ + 1]
    /\ filesChan' = AfterReceive(filesChan)
    /\ wpc' = [wpc EXCEPT ![w] = "open"]
    /\ UNCHANGED << inputs, stats, statsMutex, closed, closes, wg, mainpc, walkpc, pos,
                    walkErr, wline, wsize, wexists, openHandles, opens, recorded,
                    output >>

\* a worker finds the channel closed and empty and returns (defer wg.Done())
WorkerExit(w) ==
    /\ Alive
    /\ wpc[w] = "recv"
    /\ RangeEnds(filesChan, closed)
    /\ wpc' = [wpc EXCEPT ![w] = "exited"]
    /\ wg' = WgDone(wg)
    /\ UNCHANGED << inputs, stats, statsMutex, filesChan, closed, closes, mainpc, walkpc,
                    pos, walkErr, locals, openHandles, opens, recvs, recorded,
                    output >>

\* os.Open(path); when it fails the task is dropped
Open(w) ==
    /\ Alive
    /\ wpc[w] = "open"
    /\ opens' = [opens EXCEPT ![wtask[w]] = @ + 1]
    /\ IF tree[wtask[w]].openOk
       THEN /\ openHandles' = openHandles \cup {wtask[w]}
            /\ wpc' = [wpc EXCEPT ![w] = "count"]
            /\ UNCHANGED << wg, locals >>
       ELSE /\ Return(w)
            /\ UNCHANGED openHandles
    /\ UNCHANGED << inputs, stats, statsMutex, filesChan, closed, closes, mainpc, walkpc,
                    pos, walkErr, recvs, recorded, output >>

\* v2, v3: file.Stat(), then the scanner loop. A failed Stat drops the task
\* (the deferred Close runs); the scanner's error is never looked at, so a
\* scan that stops early (a failed read, a line too long for the buffer)
\* leaves the lines counted so far in lineCount.
CountPool(w) ==
    /\ Alive
    /\ wpc[w] = "count"
    /\ version \in PoolVersions
    /\ IF tree[wtask[w]].statOk
       THEN /\ wline' = [wline EXCEPT ![w] = Scanned(tree[wtask[w]]).count]
            /\ wsize' = [wsize EXCEPT ![w] = Size(tree[wtask[w]])]
            /\ wpc' = [wpc EXCEPT ![w] = "lock"]
            /\ UNCHANGED << wg, wtask, wexists, openHandles >>
       ELSE /\ Return(w)
            /\ openHandles' = AfterClose(openHandles, wtask[w])
    /\ UNCHANGED << inputs, stats, statsMutex, filesChan, closed, closes, mainpc, walkpc,
                    pos, walkErr, opens, recvs, recorded, output >>

\* v1: the rest of countLines: the scanner loop, the deferred Close, and
\* `return lineCount, scanner.Err()`; on an error the goroutine returns
CountV1(w) ==
    /\ Alive
    /\ wpc[w] = "count"
    /\ version = "v1"
    /\ openHandles' = AfterClose(openHandles, wtask[w])
    /\ IF Scanned(tree[wtask[w]]).err
       THEN Return(w)
       ELSE /\ wline' = [wline EXCEPT ![w] = Scanned(tree[wtask[w]]).count]
            /\ wpc' = [wpc EXCEPT ![w] = "lock"]
            /\ UNCHANGED << wg, wtask, wsize, wexists >>
    /\ UNCHANGED << inputs, stats, statsMutex, filesChan, closed, closes, mainpc, walkpc,
                    pos, walkErr, opens, recvs, recorded, output >>

\* statsMutex.Lock()
Lock(w) ==
    /\ Alive
    /\ wpc[w] = "lock"
    /\ MutexFree(statsMutex)
    /\ statsMutex' = w
    /\ wpc' = [wpc EXCEPT ![w] = "check"]
    /\ UNCHANGED << inputs, stats, filesChan, closed, closes, wg, mainpc, walkpc, pos,
                    walkErr, locals, openHandles, opens, recvs, recorded, output >>

\* _, exists := stats[language]
Check(w) ==
    /\ Alive
    /\ wpc[w] = "check"
    /\ wexists' = [wexists EXCEPT ![w] = Language(wtask[w]) \in DOMAIN stats]
    /\ wpc' = [wpc EXCEPT ![w] = "create"]
    /\ UNCHANGED << inputs, stats, statsMutex, filesChan, closed, closes, wg, mainpc,
                    walkpc, pos, walkErr, wtask, wline, wsize, openHandles, opens,
                    recvs, recorded, output >>

\* the table after stats[language] = &LanguageStats{}
WithEntry(table, lang) ==
    [l \in DOMAIN table \cup {lang} |-> IF l = lang THEN ZeroStats ELSE table[l]]

\* if !exists { stats[language] = &LanguageStats{} }
Create(w) ==
    /\ Alive
    /\ wpc[w] = "create"
    /\ stats' = IF wexists[w] THEN stats ELSE WithEntry(stats, Language(wtask[w]))
    /\ wpc' = [wpc EXCEPT ![w] = IF version = "v1" THEN "elock" ELSE "incr"]
    /\ UNCHANGED << inputs, statsMutex, filesChan, closed, closes, wg, mainpc, walkpc, pos,
                    walkErr, locals, openHandles, opens, recvs, recorded, output >>

\* v1: stats[language].mutex.Lock()
EntryLock(w) ==
    /\ Alive
    /\ wpc[w] = "elock"
    /\ MutexFree(stats[Language(wtask[w])].mutex)
    /\ stats' = [stats EXCEPT ![Language(wtask[w])].mutex = w]
    /\ wpc' = [wpc EXCEPT ![w] = "incr"]
    /\ UNCHANGED << inputs, statsMutex, filesChan, closed, closes, wg, mainpc, walkpc, pos,
                    walkErr, locals, openHandles, opens, recvs, recorded, output >>

\* the entry after FileCount++, LineCount = lineCount, ByteCount = size
AddedAssign(entry, lineCount, size) ==
    [entry EXCEPT !.FileCount = @ + 1,
                  !.LineCount = lineCount,
                  !.ByteCount = size]

\* the entry after FileCount++, LineCount += lineCount, ByteCount += size
\* (v1 has no ByteCount: size is 0 there)
Added(entry, lineCount, size) ==
    [entry EXCEPT !.FileCount = @ + 1,
                  !.LineCount = @ + lineCount,
                  !.ByteCount = @ + size]

\* the increments of the entry
Incr(w) ==
    /\ Alive
    /\ wpc[w] = "incr"
    /\ stats' = [stats EXCEPT ![Language(wtask[w])] = Added(@, wline[w], wsize[w])]
    /\ recorded' = recorded \cup {wtask[w]}
    /\ wpc' = [wpc EXCEPT ![w] = IF version = "v1" THEN "eunlock" ELSE "unlock"]
    /\ UNCHANGED << inputs, statsMutex, filesChan, closed, closes, wg, mainpc, walkpc, pos,
                    walkErr, locals, openHandles, opens, recvs, output >>

\* v1: stats[language].mutex.Unlock()
EntryUnlock(w) ==
    /\ Alive
    /\ wpc[w] = "eunlock"
    /\ stats' = [stats EXCEPT ![Language(wtask[w])].mutex = 0]
    /\ wpc' = [wpc EXCEPT ![w] = "unlock"]
    /\ UNCHANGED << inputs, statsMutex, filesChan, closed, closes, wg, mainpc, walkpc, pos,
                    walkErr, locals, openHandles, opens, recvs, recorded, output >>

\* statsMutex.Unlock() and the return: in v2, v3 the deferred file.Close()
\* runs here
Unlock(w) ==
    /\ Alive
    /\ wpc[w] = "unlock"
    /\ statsMutex' = 0
    /\ openHandles' = IF version \in PoolVersions
                      THEN AfterClose(openHandles, wtask[w])
                      ELSE openHandles
    /\ Return(w)
    /\ UNCHANGED << inputs, stats, filesChan, closed, closes, mainpc, walkpc, pos,
                    walkErr, opens, recvs, recorded, output >>

Next ==
    \/ StartPool
    \/ StartWalk
    \/ WalkVisit
    \/ WalkSend
    \/ WalkSpawn
    \/ WalkerClose
    \/ MainAfterWalk
    \/ WgWait
    \/ BuildReport
    \/ \E w \in Procs : Receive(w)
    \/ \E w \in Procs : WorkerExit(w)
    \/ \E w \in Procs : Open(w)
    \/ \E w \in Procs : CountPool(w)
    \/ \E w \in Procs : CountV1(w)
    \/ \E w \in Procs : Lock(w)
    \/ \E w \in Procs : Check(w)
    \/ \E w \in Procs : Create(w)
    \/ \E w \in Procs : EntryLock(w)
    \/ \E w \in Procs : Incr(w)
    \/ \E w \in Procs : EntryUnlock(w)
    \/ \E w \in Procs : Unlock(w)

Spec == Init /\ [][Next]_vars

\* goroutines that can run do run: the Go scheduler starves none of them
LiveSpec == Init /\ [][Next]_vars /\ WF_vars(Next)

TypeOK ==
    /\ version \in Versions
    /\ statsMutex \in Procs \cup {0}
    /\ DOMAIN stats \subseteq Languages
    /\ Len(filesChan) <= MaxCap
    /\ closes \in 0..1
    /\ Len(rows) <= Cardinality(Languages)
    /\ sortOpt \in {ParseSort(arg) : arg \in SortArgs}
    /\ wg \in 0..Cardinality(Procs)
    /\ mainpc \in {"start", "walk", "wait", "report", "done", "exited"}
    /\ walkpc \in {"idle", "walk", "returned", "done"}
    /\ pos \in 1..(Len(tree) + 1)
    /\ \A w \in Procs :
        wpc[w] \in {"none", "recv", "open", "count", "lock", "check", "create",
                    "elock", "incr", "eunlock", "unlock", "exited"}

\* ----------------------------------------------------------------------
\* The program run sequentially, as a function of its input
\* ----------------------------------------------------------------------

RECURSIVE Sum(_, _)
Sum(f, S) ==
    IF S = {} THEN 0
    ELSE LET x == CHOOSE y \in S : TRUE
         IN  f[x] + Sum(f, S \ {x})

\* the entries filepath.Walk visits, from entry i on
RECURSIVE WalkVisited(_, _, _, _, _)
WalkVisited(t, i, ver, pats, skip) ==
    IF i > Len(t) THEN {}
    ELSE {i} \cup WalkVisited(t, NextPos(t, i, walkFn(t, i, ver, pats, skip)),
                              ver, pats, skip)

\* the entries the callback hands on
WalkTasks(t, ver, pats, skip) ==
    {i \in WalkVisited(t, 1, ver, pats, skip) : walkFn(t, i, ver, pats, skip).emit}

\* processFile (v2, v3) and the counting goroutine (v1) on one file: whether
\* the file is added to the table, and with which counts
processFile(ver, e) ==
    IF ver = "v1"
    THEN [ok |-> e.openOk /\ ~Scanned(e).err, lines |-> Scanned(e).count,
          size |-> 0]
    ELSE [ok |-> e.openOk /\ e.statOk, lines |-> Scanned(e).count,
          size |-> Size(e)]

\* the table built from the files `counted` of tree t
TableOf(t, ver, counted) ==
    LET lines == [i \in counted |-> processFile(ver, t[i]).lines]
        sizes == [i \in counted |-> processFile(ver, t[i]).size]
        of(l) == {i \in counted : Classify(t[i].name) = l}
    IN  [l \in {Classify(t[i].name) : i \in counted} |->
            [FileCount |-> Cardinality(of(l)),
             LineCount |-> Sum(lines, of(l)),
             ByteCount |-> Sum(sizes, of(l))]]

\* the table a run on tree t with the given options ends with
ExpectedStats(t, ver, pats, skip) ==
    TableOf(t, ver, {i \in WalkTasks(t, ver, pats, skip) : processFile(ver, t[i]).ok})

\* the stats table without the entries' mutexes
Totals(table) ==
    [l \in DOMAIN table |->
        [FileCount |-> table[l].FileCount,
         LineCount |-> table[l].LineCount,
         ByteCount |-> table[l].ByteCount]]

\* the goroutines between statsMutex.Lock() and statsMutex.Unlock()
InCritical ==
    {w \in Procs : wpc[w] \in {"check", "create", "elock", "incr", "eunlock", "unlock"}}

\* the tasks in the channel
Queued == {filesChan[k] : k \in 1..Len(filesChan)}

\* entry i lies inside a directory named node_modules
UnderNodeModules(t, i) ==
    \E j \in 1..(i - 1) :
        /\ t[j].isDir
        /\ t[j].name = NodeModules
        /\ t[j].depth < t[i].depth
        /\ \A k \in (j + 1)..i : t[k].depth > t[j].depth

\* tree t with every node_modules directory emptied
RECURSIVE Emptied(_, _)
Emptied(t, i) ==
    IF i > Len(t) THEN << >>
    ELSE IF UnderNodeModules(t, i) THEN Emptied(t, i + 1)
    ELSE << t[i] >> \o Emptied(t, i + 1)

\* ----------------------------------------------------------------------
\* Claims
\* ----------------------------------------------------------------------

\* C1: recording a file in the stats table is indivisible: at most one
\* goroutine is between Lock and Unlock of statsMutex, and in every state
\* the entry of each language holds exactly the contributions of the files
\* recorded so far for it (one entry, no lost update, no overwritten entry).
RecordIsIndivisible ==
    /\ Cardinality(InCritical) <= 1
    /\ \A w \in InCritical : statsMutex = w
    /\ Totals(stats) = TableOf(tree, version, recorded) \/
       \E w \in InCritical :
          /\ wpc[w] \in {"elock", "incr"}
          /\ Language(wtask[w]) \notin DOMAIN TableOf(tree, version, recorded)
          /\ Totals(stats) =
                [l \in DOMAIN stats |->
                    IF l = Language(wtask[w])
                    THEN [FileCount |-> 0, LineCount |-> 0, ByteCount |-> 0]
                    ELSE TableOf(tree, version, recorded)[l]]

\* C1 witness: a goroutine holds statsMutex for a language that is not yet
\* in the table while another one waits to record a file of that language
RecordContended ==
    \E w1, w2 \in Procs :
        /\ w1 # w2
        /\ wpc[w1] \in {"check", "create"}
        /\ wpc[w2] = "lock"
        /\ Language(wtask[w1]) = Language(wtask[w2])
        /\ Language(wtask[w1]) \notin DOMAIN stats

\* the workers of the pool
Workers == 1..numWorkers

\* every goroutine that counts files has returned
AllReturned == \A w \in Procs : wpc[w] \in {"none", "exited"}

\* C3: every task is handed to exactly one worker and processed at most
\* once: no task is received twice, no path is opened twice, no two
\* goroutines hold the same task, a task is never both queued and held, and
\* when the run is over every task the walk produced was received once.
TaskConsumedOnce ==
    /\ \A i \in 1..Len(tree) : recvs[i] <= 1 /\ opens[i] <= 1
    /\ \A w1, w2 \in Procs :
          (w1 # w2 /\ wtask[w1] # 0) => wtask[w1] # wtask[w2]
    /\ \A k1, k2 \in 1..Len(filesChan) :
          k1 # k2 => filesChan[k1] # filesChan[k2]
    /\ \A i \in Queued : recvs[i] = 0
    /\ mainpc = "done" =>
          \A i \in WalkTasks(tree, version, excludePatterns, skipNodeModules) :
              recvs[i] = 1

\* C3 witness: two workers of the pool hold one task each, both files open
TwoWorkersBusy ==
    \E w1, w2 \in Workers :
        /\ w1 # w2
        /\ wtask[w1] # 0 /\ wtask[w2] # 0
        /\ {wtask[w1], wtask[w2]} \subseteq openHandles

\* C4: main reads the stats table only when every worker has seen the
\* channel closed and returned, and nobody holds the lock of the table.
HardBarrier ==
    mainpc \in {"report", "done"} =>
        /\ AllReturned
        /\ statsMutex = 0
        /\ version \in PoolVersions =>
              closed /\ filesChan = << >> /\ \A w \in Workers : wpc[w] = "exited"

\* C4 witness: main is about to read a table that workers have filled
ReportAfterWork ==
    /\ mainpc = "report"
    /\ version \in PoolVersions
    /\ numWorkers > 1
    /\ Cardinality(recorded) > 1

\* the walker waits to send on a full channel
WalkerBlocked ==
    /\ walkpc = "walk"
    /\ version \in PoolVersions
    /\ walkFn(tree, pos, version, excludePatterns, skipNodeModules).emit
    /\ ~ChanHasRoom(filesChan, chanCap)

\* no worker can take a step: each has returned or waits on the open, empty
\* channel
WorkersBlockedOrGone ==
    \A w \in Workers :
        \/ wpc[w] = "exited"
        \/ wpc[w] = "recv" /\ filesChan = << >> /\ ~closed

\* the pipeline has run to its end: channel closed, workers gone, report out
PipelineDone ==
    /\ walkpc = "done"
    /\ closed
    /\ \A w \in Workers : wpc[w] = "exited"
    /\ mainpc = "done"

\* C5: the pipeline never deadlocks and terminates: in no state is the
\* walker blocked on a send while every worker is blocked or gone, a state
\* of an unfinished run always has a step to take, and under fair
\* scheduling every run of v2 and v3 closes the channel, ends every worker
\* and prints the report, whether or not the walk met an error.
PipelineTerminates ==
    /\ [](version \in PoolVersions =>
            /\ ~(WalkerBlocked /\ WorkersBlockedOrGone)
            /\ (mainpc # "done" => ENABLED Next))
    /\ (version \in PoolVersions) ~> PipelineDone

\* C5 witness: a run whose walk stopped on a traversal error has closed the
\* channel, ended its workers and printed the report of the files counted
DoneAfterWalkError ==
    /\ PipelineDone
    /\ walkErr
    /\ recorded # {}

\* C6: the final totals are a function of the tree and the options alone:
\* whatever the worker count, the channel capacity and the interleaving,
\* the table main reads and prints is the one the sequential run yields.
TotalsDeterministic ==
    mainpc \in {"report", "done"} =>
        /\ Totals(stats) =
              ExpectedStats(tree, version, excludePatterns, skipNodeModules)
        /\ mainpc = "done" => report = Totals(stats)

\* C6 witness: a finished run of several workers with two files in an entry
DoneWithSharedEntry ==
    /\ mainpc = "done"
    /\ numWorkers > 1
    /\ \E l \in DOMAIN report : report[l].FileCount > 1

\* C10: with --skip-node-modules the walk never enters a node_modules
\* directory, no file below one is ever queued, received or opened, and the
\* final table is the one of the same tree with those directories emptied.
NodeModulesPruned ==
    (version = "v3" /\ skipNodeModules) =>
        /\ \A i \in 1..Len(tree) :
              UnderNodeModules(tree, i) =>
                  /\ pos # i
                  /\ i \notin Queued
                  /\ recvs[i] = 0 /\ opens[i] = 0
                  /\ i \notin recorded
        /\ mainpc = "done" =>
              report = ExpectedStats(Emptied(tree, 1), version, excludePatterns,
                                     skipNodeModules)

\* C10 witness: a finished run with the flag set over a tree whose
\* node_modules directory holds a source file
DoneWithPrunedFile ==
    /\ mainpc = "done"
    /\ version = "v3" /\ skipNodeModules
    /\ report # NoStats
    /\ \E i \in 1..Len(tree) :
          UnderNodeModules(tree, i) /\ ~tree[i].err /\ Classify(tree[i].name) # ""

\* counting file e fails: it cannot be opened, its metadata cannot be read
\* (v1 never asks for it), or the scanner stops with an error
CountFails(ver, e) ==
    \/ ~e.openOk
    \/ ver \in PoolVersions /\ ~e.statOk
    \/ Scanned(e).err

\* some well-formed exclusion pattern matches the base name
MatchedByPattern(pats, base) ==
    \E k \in 1..Len(pats) :
        LET m == Match(TrimSpace(pats[k]), base)
        IN  ~m.err /\ m.matched

\* some exclusion pattern is malformed
HasMalformedPattern(pats) ==
    \E k \in 1..Len(pats) : BadPattern(TrimSpace(pats[k]))

\* the entries the walk has visited so far
VisitedSoFar ==
    {i \in WalkVisited(tree, 1, version, excludePatterns, skipNodeModules) : i < pos}

\* the files with a recognized extension that no pattern excludes
Eligible(i) ==
    /\ ~tree[i].isDir
    /\ ~tree[i].err
    /\ Classify(tree[i].name) # ""
    /\ ~MatchedByPattern(excludePatterns, tree[i].name)

\* the sum of FileCount over the languages of a table
TotalFiles(table) ==
    Sum([l \in DOMAIN table |-> table[l].FileCount], DOMAIN table)

\* C2: when the pool has drained, the sum of FileCount over the table is the
\* number of visited files that have a recognized extension, are not
\* excluded and were read successfully; every other file adds nothing.
FileCountIsFilesRead ==
    mainpc = "done" =>
        TotalFiles(report) =
            Cardinality({i \in VisitedSoFar :
                            Eligible(i) /\ ~CountFails(version, tree[i])})

\* C7: a traversal error is fatal: the walk stops and no report of the
\* partial totals is printed.
TraversalErrorIsFatal ==
    walkErr => (walkpc # "walk" /\ mainpc # "done")

\* C8: a file whose counting failed is dropped: it is never added to the
\* stats table.
FailedCountAddsNothing ==
    \A i \in recorded : ~CountFails(version, tree[i])

\* C9: a malformed exclusion pattern counts as no match: a visited file with
\* a recognized extension that no well-formed pattern matches is handed on
\* even when one of the patterns is malformed.
MalformedPatternIsNoMatch ==
    HasMalformedPattern(excludePatterns) =>
        \A i \in VisitedSoFar :
            Eligible(i) => (i \in Queued \/ recvs[i] > 0)

\* the files of language l in tree t
FilesOf(t, l) ==
    {i \in 1..Len(t) : ~t[i].isDir /\ ~t[i].err /\ Classify(t[i].name) = l}

\* the exclusion patterns match the base name of every file of language l
AllExcluded(t, pats, l) ==
    /\ FilesOf(t, l) # {}
    /\ \A i \in FilesOf(t, l) : MatchedByPattern(pats, t[i].name)

\* the exclusion patterns match the base name of no file of language l
NoneExcluded(t, pats, l) ==
    \A i \in FilesOf(t, l) : ~MatchedByPattern(pats, t[i].name)

\* tables a and b agree on language l: both lack it or both hold the same
\* totals for it
SameEntry(a, b, l) ==
    /\ l \in DOMAIN a <=> l \in DOMAIN b
    /\ l \in DOMAIN a => a[l] = b[l]

\* C11: when the exclusion patterns match every file of some language, the
\* printed table has no entry for that language, and every other language
\* none of whose files the patterns match has the entry it has in the same
\* run without exclusion patterns.
ExclusionLeavesOthersAlone ==
    mainpc = "done" =>
        \A l \in Languages :
            AllExcluded(tree, excludePatterns, l) =>
                /\ l \notin DOMAIN report
                /\ \A m \in Languages \ {l} :
                      NoneExcluded(tree, excludePatterns, m) =>
                          SameEntry(report,
                                    ExpectedStats(tree, version, NoPatterns,
                                                  skipNodeModules), m)

\* the number of lines of a file content: one per line feed, and one more
\* for the bytes after the last line feed when there are any
TrueLines(content) ==
    Cardinality({k \in 1..Len(content) : content[k] = "\n"})
        + (IF content # << >> /\ content[Len(content)] # "\n" THEN 1 ELSE 0)

\* the goroutines that hold a line count they are about to add to the table
HoldsCount ==
    {w \in Procs : wpc[w] \in {"lock", "check", "create", "elock", "incr"}}

\* C12: the line count recorded for a file whose reads all succeed is the
\* number of its lines, whatever their length: one per terminated line and
\* one more for a last line without terminator; a language whose recorded
\* files are all empty is reported with that many files, 0 lines, 0 bytes.
LineCountIsLines ==
    /\ \A w \in HoldsCount :
          tree[wtask[w]].readable = Len(tree[wtask[w]].content) =>
              wline[w] = TrueLines(tree[wtask[w]].content)
    /\ mainpc = "done" =>
          \A l \in DOMAIN report :
              LET of == {i \in recorded : Classify(tree[i].name) = l}
              IN  (\A i \in of : tree[i].content = << >>) =>
                      report[l] = [FileCount |-> Cardinality(of),
                                   LineCount |-> 0, ByteCount |-> 0]

\* the fields the --sort option names
SortFields ==
    { <<"n", "a", "m", "e">>, <<"f", "i", "l", "e", "s">>,
      <<"l", "i", "n", "e", "s">>, <<"s", "i", "z", "e">> }

\* the value of row r in the column `field`; the name column for any other
\* field
Key(r, field) ==
    CASE field = <<"f", "i", "l", "e", "s">> -> r.Stats.FileCount
      [] field = <<"l", "i", "n", "e", "s">> -> r.Stats.LineCount
      [] field = <<"s", "i", "z", "e">> -> r.Stats.ByteCount
      [] OTHER -> NameRank(r.Name)

NonDecreasing(data, field) ==
    \A k \in 1..(Len(data) - 1) : Key(data[k], field) <= Key(data[k + 1], field)

NonIncreasing(data, field) ==
    \A k \in 1..(Len(data) - 1) : Key(data[k], field) >= Key(data[k + 1], field)

\* the rows are the entries of the printed table, each exactly once
RowsArePermutation ==
    /\ Len(rows) = Cardinality(DOMAIN report)
    /\ {rows[k].Name : k \in 1..Len(rows)} = DOMAIN report
    /\ \A k \in 1..Len(rows) : rows[k].Stats = report[rows[k].Name]

\* C13 as stated: in the versions that sort the report, the rows are a
\* permutation of the table; for a field among name, files, lines, size they
\* are non-decreasing in it with direction asc and non-increasing with
\* direction desc; with no directive or an unknown field they are in
\* ascending order of the language name.
RowsFollowDirective ==
    (mainpc = "done" /\ version \in PoolVersions) =>
        /\ RowsArePermutation
        /\ IF sortOpt.Field \in SortFields
           THEN /\ sortOpt.Direction = <<"a", "s", "c">> =>
                      NonDecreasing(rows, sortOpt.Field)
                /\ sortOpt.Direction = <<"d", "e", "s", "c">> =>
                      NonIncreasing(rows, sortOpt.Field)
           ELSE NonDecreasing(rows, <<"n", "a", "m", "e">>)

\* C13, amended: in the versions that sort the report, the rows are a
\* permutation of the table, ordered on the column the field names (files,
\* lines, size), on the language name for any other or no field; the order
\* is non-increasing when the direction is desc, also for an unknown field,
\* and non-decreasing for every other or no direction.
RowsSortedOnKey ==
    (mainpc = "done" /\ version \in PoolVersions) =>
        /\ RowsArePermutation
        /\ IF sortOpt.Direction = <<"d", "e", "s", "c">>
           THEN NonIncreasing(rows, sortOpt.Field)
           ELSE NonDecreasing(rows, sortOpt.Field)

\* three rows that tie on the files column, sorted with an unknown field
\* and direction desc
SortedUnknownFieldDesc ==
    /\ mainpc = "done"
    /\ version = "v3"
    /\ sortOpt.Field \notin SortFields \cup {<< >>}
    /\ sortOpt.Direction = <<"d", "e", "s", "c">>
    /\ Len(rows) = 3
    /\ \A k \in 1..Len(rows) : rows[k].Stats.FileCount = 1

\* the tasks the walker has sent on the channel so far
Sent ==
    {i \in VisitedSoFar :
        walkFn(tree, i, version, excludePatterns, skipNodeModules).emit}

\* what the closure protocol says of a single state of a pool version
ClosureState ==
    version \in PoolVersions =>
        /\ closes <= 1
        /\ closed <=> closes = 1
        /\ closed <=> walkpc = "done"
        /\ \A w \in Workers :
              wpc[w] = "exited" => (closed /\ filesChan = << >>)
        /\ mainpc \in {"report", "done"} =>
              /\ filesChan = << >>
              /\ \A i \in Sent : recvs[i] = 1 /\ opens[i] = 1

\* what it says of a step: the channel is closed by the walker after
\* filepath.Walk has returned, it stays closed, nothing is sent on it once it
\* is closed, and a worker returns only from a closed and empty channel
ClosureStep ==
    version \in PoolVersions =>
        /\ closes' # closes =>
              (closes' = closes + 1 /\ walkpc = "returned" /\ walkpc' = "done")
        /\ closed => closed'
        /\ closed =>
              (filesChan' = filesChan \/
                  (filesChan # << >> /\ filesChan' = Tail(filesChan)))
        /\ \A w \in Workers :
              (wpc[w] # "exited" /\ wpc'[w] = "exited") =>
                  (closed /\ filesChan = << >>)

\* C14: the walker closes the task queue exactly once, after its last send,
\* whether the walk completed or stopped on a traversal error; nothing is
\* sent after the close; a worker exits only when the queue is closed and
\* empty, so every task sent before the close is received and processed.
QueueClosureProtocol == []ClosureState /\ [][ClosureStep]_vars

\* the walk stopped on a traversal error and the queue was closed while a
\* task sent before the error is still in it
ClosedWithTaskQueued ==
    /\ closed
    /\ walkErr
    /\ filesChan # << >>

\* C15: the channel never holds more tasks than its capacity; while it is
\* full the walker's send is not enabled: the walk stays at the file it
\* wants to send and the channel does not grow until a worker has received.
Backpressure ==
    /\ [](version \in PoolVersions => Len(filesChan) <= chanCap)
    /\ [][WalkerBlocked =>
            (pos' = pos /\ walkpc' = walkpc /\ Len(filesChan') <= Len(filesChan))]_vars

\* the channel is full and the walker waits with the next file
QueueFullWalkerWaits ==
    /\ WalkerBlocked
    /\ Len(filesChan) = chanCap
    /\ \E w \in Workers : wpc[w] \in {"open", "count", "lock"}

\* a step in which table a becomes table b: no entry is lost or made
\* smaller, a new entry starts at zero, and at most one entry changes, by one
\* file and non-negative numbers of lines and bytes
Grows(a, b) ==
    /\ DOMAIN a \subseteq DOMAIN b
    /\ \A l \in DOMAIN b \ DOMAIN a :
          b[l] = [FileCount |-> 0, LineCount |-> 0, ByteCount |-> 0]
    /\ \A l \in DOMAIN a :
          \/ b[l] = a[l]
          \/ /\ b[l].FileCount = a[l].FileCount + 1
             /\ b[l].LineCount >= a[l].LineCount
             /\ b[l].ByteCount >= a[l].ByteCount
             /\ \A m \in DOMAIN a \ {l} : b[m] = a[m]
             /\ DOMAIN b = DOMAIN a

\* the goroutines that are at the increment in this state and past it in
\* the next
Incrementing == {w \in Procs : wpc[w] = "incr" /\ wpc'[w] # "incr"}

\* C16: across every step the stats table loses no language and no count
\* of an entry decreases; an entry changes only by one goroutine's
\* increment: FileCount by exactly 1, LineCount and ByteCount by
\* non-negative amounts.
StatsOnlyGrow ==
    [][/\ Grows(Totals(stats), Totals(stats'))
       /\ \A l \in DOMAIN stats :
             Totals(stats')[l] # Totals(stats)[l] =>
                 /\ Cardinality(Incrementing) = 1
                 /\ \A w \in Incrementing : Language(wtask[w]) = l]_vars

\* a second file of a language has been added to its entry
EntryGrewTwice ==
    \E l \in DOMAIN stats :
        /\ stats[l].FileCount = 2
        /\ stats[l].LineCount > 0
        /\ Cardinality(DOMAIN stats) = 2

\* the goroutines between a successful os.Open and the deferred Close: in
\* v2 and v3 processFile returns after statsMutex.Unlock(), in v1
\* countLines returns before the lock is taken
HoldsFile ==
    {w \in Procs :
        wpc[w] \in IF version \in PoolVersions
                   THEN {"count", "lock", "check", "create", "incr", "unlock"}
                   ELSE {"count"}}

\* C17: a file is open exactly while a goroutine is between its successful
\* os.Open and the end of the function that opened it: every exit path
\* (counted, Stat failed, read failed) releases the handle, a failed open
\* leaves none, and when the wait before the report has returned no file is
\* open.
HandlesReleased ==
    /\ openHandles = {wtask[w] : w \in HoldsFile}
    /\ \A i \in openHandles : tree[i].openOk
    /\ mainpc \in {"report", "done"} => openHandles = {}

\* a worker is through with a file whose Stat failed after a successful
\* open, and one whose read failed
ReleasedAfterFailures ==
    \E i, j \in 1..Len(tree) :
        /\ tree[i].openOk /\ ~tree[i].statOk /\ opens[i] = 1
        /\ tree[j].openOk /\ Scanned(tree[j]).err /\ opens[j] = 1
        /\ \A w \in Procs : wtask[w] \notin {i, j}
        /\ version \in PoolVersions

\* the tasks that exist and are not fully processed: those in the channel,
\* those a worker holds, and the one the walker is about to send
InFlight ==
    Len(filesChan)
      + Cardinality({w \in Workers : wtask[w] # 0})
      + (IF walkpc = "walk" /\ pos <= Len(tree)
            /\ walkFn(tree, pos, version, excludePatterns, skipNodeModules).emit
         THEN 1 ELSE 0)

\* C18: in the versions with a worker pool at most as many files are open
\* as there are workers, and at most capacity + workers + 1 tasks exist that
\* are not fully processed.
PoolBoundsResources ==
    version \in PoolVersions =>
        /\ Cardinality(openHandles) <= numWorkers
        /\ InFlight <= chanCap + numWorkers + 1

\* both bounds are met: every worker has a file open, the channel is full
\* and the walker waits with one more task
PoolAtItsBounds ==
    /\ version \in PoolVersions
    /\ Cardinality(openHandles) = numWorkers
    /\ InFlight = chanCap + numWorkers + 1

\* the counting goroutines that have been started and have not returned
Counting == {w \in Procs : wpc[w] \notin {"none", "exited"}}

\* goroutine w waits in a Lock() for a mutex somebody holds
WaitsForLock(w) ==
    \/ wpc[w] = "lock" /\ ~MutexFree(statsMutex)
    \/ wpc[w] = "elock" /\ ~MutexFree(stats[Language(wtask[w])].mutex)

\* the lock discipline of the goroutine-per-file version: an entry's mutex
\* is held only by the goroutine that holds statsMutex, between its
\* entry Lock() and entry Unlock(); at most one goroutine is inside; and
\* while a goroutine has not returned, some goroutine is not waiting for a
\* lock; when wg.Wait() has returned, every goroutine has
TwoLockOrder ==
    version = "v1" =>
        /\ \A l \in DOMAIN stats :
              stats[l].mutex # 0 =>
                  /\ statsMutex = stats[l].mutex
                  /\ wpc[stats[l].mutex] \in {"incr", "eunlock"}
                  /\ Language(wtask[stats[l].mutex]) = l
        /\ \A w \in Procs :
              wpc[w] \in {"incr", "eunlock"} =>
                  stats[Language(wtask[w])].mutex = w
        /\ \A w \in Procs :
              wpc[w] = "unlock" => \A l \in DOMAIN stats : stats[l].mutex = 0
        /\ Cardinality(InCritical) <= 1
        /\ Counting # {} => \E w \in Counting : ~WaitsForLock(w)
        /\ mainpc \in {"report", "done"} => Counting = {}

\* C19: in the goroutine-per-file version the per-entry lock is taken only
\* inside the table-wide lock and released before it, so no state is a
\* deadlock among the counting goroutines and the update stays indivisible;
\* under fair scheduling the run ends: with the report, printed after
\* every goroutine that was started has returned and the wait has returned,
\* or with os.Exit on a traversal error.
TwoLocksNoDeadlock ==
    /\ []TwoLockOrder
    /\ (version = "v1") ~> (mainpc \in {"done", "exited"})

\* a goroutine holds both locks while another waits for the table-wide one
\* and main waits for both
BothLocksHeldOthersWait ==
    /\ version = "v1"
    /\ mainpc = "wait"
    /\ \E w \in Procs : wpc[w] = "incr" /\ stats[Language(wtask[w])].mutex = w
    /\ \E w \in Procs : wpc[w] = "lock"

\* the goroutine that has created the entry of language l and has not yet
\* counted its file: it still holds statsMutex
CreatorInside(l) ==
    \E w \in InCritical :
        /\ statsMutex = w
        /\ wpc[w] \in {"elock", "incr"}
        /\ Language(wtask[w]) = l

\* C20: every language in the stats table is a label of languageExtMap and
\* has as many files as were counted for it, at least one: an entry with no
\* file exists only inside the critical section of the goroutine that
\* created it and is about to count its file, and never in the report.
EntriesAreCountedLanguages ==
    /\ \A l \in DOMAIN stats :
          /\ l \in Languages
          /\ stats[l].FileCount = Cardinality({i \in recorded : Language(i) = l})
          /\ stats[l].FileCount >= 1 \/ CreatorInside(l)
    /\ \A l \in DOMAIN report :
          l \in Languages /\ report[l].FileCount >= 1

\* a goroutine has created an entry and counted its file into it, after the
\* walk has passed a file with an unknown extension
EntryCreatedAndCounted ==
    /\ \E w \in Procs :
          /\ wpc[w] = "unlock"
          /\ ~wexists[w]
          /\ stats[Language(wtask[w])].FileCount = 1
    /\ \E i \in VisitedSoFar :
          ~tree[i].isDir /\ ~tree[i].err /\ Classify(tree[i].name) = ""

====
